---- MODULE Spec2Model ----
(***************************************************************************)
(* Regex -> epsilon-NFA by Thompson's construction (src/AutomataTheory.py) *)
(* and the acceptance test of the GUI (src/gui.py).                        *)
(*                                                                         *)
(* An automaton is a record                                                *)
(*   states      : set of integers                  (Automata.states)      *)
(*   startstate  : integer or None                  (Automata.startstate)  *)
(*   finalstates : sequence of integers             (Automata.finalstates) *)
(*   transitions : set of <<from, to, symbol>>      (Automata.transitions) *)
(* The Python dict  from -> {to -> set of symbols}  and the set of triples *)
(* <<from, to, symbol>> determine each other, because addtransition never  *)
(* stores an empty symbol set.                                             *)
(* A string is a sequence of one-character strings.                        *)
(***************************************************************************)
EXTENDS Integers, Sequences, FiniteSets, TLC

Range(f) == {f[i] : i \in DOMAIN f}

(***************************************************************************)
(* class Automata                                                          *)
(***************************************************************************)
None == -1

epsilon == ":e:"

NewAutomata ==
    [states |-> {}, startstate |-> None, finalstates |-> <<>>, transitions |-> {}]

setstartstate(A, state) ==
    [A EXCEPT !.startstate = state, !.states = @ \cup {state}]

\* addfinalstates with an int argument: state = [state]; the loop appends it
\* when it is not yet in the list.  self.states is not touched.
addfinalstates(A, state) ==
    IF state \in Range(A.finalstates)
    THEN A
    ELSE [A EXCEPT !.finalstates = Append(@, state)]

\* addfinalstates with a list argument: the same loop over its elements.
RECURSIVE addfinalstatesList(_, _)
addfinalstatesList(A, lst) ==
    IF lst = <<>> THEN A
    ELSE addfinalstatesList(addfinalstates(A, Head(lst)), Tail(lst))

\* inp is a set of symbols (a str argument becomes the singleton set).
addtransition(A, fromstate, tostate, inp) ==
    [A EXCEPT !.states = @ \cup {fromstate, tostate},
              !.transitions = @ \cup {<<fromstate, tostate, c>> : c \in inp}]

\* addtransition for every (from, to, symbols) entry of another relation.
RECURSIVE addtransition_dict(_, _)
addtransition_dict(A, transitions) ==
    IF transitions = {} THEN A
    ELSE LET t == CHOOSE u \in transitions : TRUE
             inp == {u[3] : u \in {v \in transitions : v[1] = t[1] /\ v[2] = t[2]}}
             rest == {v \in transitions : ~(v[1] = t[1] /\ v[2] = t[2])}
         IN  addtransition_dict(addtransition(A, t[1], t[2], inp), rest)

\* state is a collection of states (an int argument becomes [state]).
gettransitions(A, state, key) ==
    {t[2] : t \in {u \in A.transitions : u[1] \in state /\ u[3] = key}}

\* The states one pass of getEClose's loop adds to the worklist, state being
\* the one popped and allstates already holding it.
\* Variant without the test "tns not in allstates":
epsilonTargetsUnseen(A, allstates, state) ==
    {t[2] : t \in {u \in A.transitions : u[1] = state /\ u[3] = epsilon}}

epsilonTargets(A, allstates, state) ==
    {t[2] : t \in {u \in A.transitions :
        u[1] = state /\ u[3] = epsilon /\ u[2] \notin allstates}}

\* The worklist loop of getEClose: states is the worklist, allstates the result.
RECURSIVE EClose(_, _, _)
EClose(A, allstates, states) ==
    IF states = {} THEN allstates
    ELSE LET state == CHOOSE x \in states : TRUE
         IN  EClose(A, allstates \cup {state},
                    (states \ {state}) \cup epsilonTargets(A, allstates \cup {state}, state))

\* Variant without the worklist: the state alone, no epsilon edge followed.
getECloseSelfOnly(A, findstate) == {findstate}

getEClose(A, findstate) == EClose(A, {}, {findstate})

\* order is list(self.states): the states in the order the set enumerates them.
newBuildFromNumber(A, startnum, order) ==
    LET translations == [q \in A.states |->
            startnum + (CHOOSE i \in 1..Len(order) : order[i] = q) - 1]
        r0 == setstartstate(NewAutomata, translations[A.startstate])
        r1 == addfinalstates(r0, translations[A.finalstates[1]])
        r2 == addtransition_dict(r1,
                 {<<translations[t[1]], translations[t[2]], t[3]>> : t \in A.transitions})
    IN  [rebuild |-> r2, startnum |-> startnum + Len(order)]

(***************************************************************************)
(* class BuildAutomata                                                     *)
(***************************************************************************)
basicstruct(inp) ==
    LET state1 == 1
        state2 == 2
        b0 == setstartstate(NewAutomata, state1)
        b1 == addfinalstates(b0, state2)
    IN  addtransition(b1, 1, 2, {inp})

\* The transitions ORstruct adds: a and b are the renumbered operands, plus
\* the new automaton with its start and final state set.
\* Variant without the epsilon edge from the new start state to b's start
\* state:
ORtransitionsOneBranch(a, b, plus) ==
    LET p2 == addtransition(plus, plus.startstate, a.startstate, {epsilon})
        p4 == addtransition(p2, a.finalstates[1], plus.finalstates[1], {epsilon})
        p5 == addtransition(p4, b.finalstates[1], plus.finalstates[1], {epsilon})
        p6 == addtransition_dict(p5, a.transitions)
    IN  addtransition_dict(p6, b.transitions)

ORtransitions(a, b, plus) ==
    LET p2 == addtransition(plus, plus.startstate, a.startstate, {epsilon})
        p3 == addtransition(p2, plus.startstate, b.startstate, {epsilon})
        p4 == addtransition(p3, a.finalstates[1], plus.finalstates[1], {epsilon})
        p5 == addtransition(p4, b.finalstates[1], plus.finalstates[1], {epsilon})
        p6 == addtransition_dict(p5, a.transitions)
    IN  addtransition_dict(p6, b.transitions)

ORstruct(a, b, ordera, orderb) ==
    LET ra == newBuildFromNumber(a, 2, ordera)
        rb == newBuildFromNumber(b, ra.startnum, orderb)
        state1 == 1
        state2 == rb.startnum
    IN  ORtransitions(ra.rebuild, rb.rebuild,
                      addfinalstates(setstartstate(NewAutomata, state1), state2))

DOTstruct(a, b, ordera, orderb) ==
    LET ra == newBuildFromNumber(a, 1, ordera)
        rb == newBuildFromNumber(b, ra.startnum, orderb)
        a1 == ra.rebuild
        b1 == rb.rebuild
        state1 == 1
        state2 == rb.startnum - 1
        d0 == setstartstate(NewAutomata, state1)
        d1 == addfinalstates(d0, state2)
        d2 == addtransition(d1, a1.finalstates[1], b1.startstate, {epsilon})
        d3 == addtransition_dict(d2, a1.transitions)
    IN  addtransition_dict(d3, b1.transitions)

\* The transitions starstruct adds: a is the renumbered operand, star0 the
\* new automaton with its start and final state set.
\* Variant without the epsilon edge back from a's final state to a's start
\* state:
starTransitionsNoLoop(a, star0) ==
    LET s2 == addtransition(star0, star0.startstate, a.startstate, {epsilon})
        s3 == addtransition(s2, star0.startstate, star0.finalstates[1], {epsilon})
        s4 == addtransition(s3, a.finalstates[1], star0.finalstates[1], {epsilon})
    IN  addtransition_dict(s4, a.transitions)

starTransitions(a, star0) ==
    LET s2 == addtransition(star0, star0.startstate, a.startstate, {epsilon})
        s3 == addtransition(s2, star0.startstate, star0.finalstates[1], {epsilon})
        s4 == addtransition(s3, a.finalstates[1], star0.finalstates[1], {epsilon})
        s5 == addtransition(s4, a.finalstates[1], a.startstate, {epsilon})
    IN  addtransition_dict(s5, a.transitions)

starstruct(a, ordera) ==
    LET ra == newBuildFromNumber(a, 2, ordera)
        state1 == 1
        state2 == ra.startnum
    IN  starTransitions(ra.rebuild,
                        addfinalstates(setstartstate(NewAutomata, state1), state2))

(***************************************************************************)
(* gui.py: the acceptance test                                             *)
(***************************************************************************)
\* dfs at the end of the input: any final state in the closure of a state.
dfsVerdict(nfa, states) ==
    \E state \in states : \E s \in getEClose(nfa, state) :
        s \in Range(nfa.finalstates)

\* dfs before the end of the input: next_states for the symbol read.
dfsNextStates(nfa, states, symbol) ==
    UNION {getEClose(nfa, t) :
             t \in UNION {gettransitions(nfa, {s}, symbol) :
                             s \in UNION {getEClose(nfa, state) : state \in states}}}

\* The automaton after a pass of dfs that computed next_states: simulate_nfa,
\* getEClose and gettransitions assign to no attribute of it.
\* Variant that drops the transitions leaving states outside next_states:
automatonAfterPruned(nfa, next_states) ==
    [nfa EXCEPT !.transitions = {t \in @ : t[1] \in next_states}]

automatonAfter(nfa, next_states) == nfa

RECURSIVE dfs(_, _, _, _)
dfs(nfa, input_string, states, index) ==
    IF index = Len(input_string)
    THEN dfsVerdict(nfa, states)
    ELSE dfs(nfa, input_string, dfsNextStates(nfa, states, input_string[index + 1]),
             index + 1)

simulate_nfa(nfa, input_string) ==
    dfs(nfa, input_string, getEClose(nfa, nfa.startstate), 0)

Whitespace == {" ", "\t", "\n"}

RECURSIVE lstrip(_)
lstrip(s) == IF s # <<>> /\ Head(s) \in Whitespace THEN lstrip(Tail(s)) ELSE s

RECURSIVE rstrip(_)
rstrip(s) ==
    IF s # <<>> /\ s[Len(s)] \in Whitespace THEN rstrip(SubSeq(s, 1, Len(s) - 1)) ELSE s

\* str.strip()
strip(s) == rstrip(lstrip(s))

\* handleTestStringButton on a built automaton: the verdict shown.
handleTestStringButton(nfa, testVar) ==
    LET input_str == strip(testVar)
    IN  IF input_str = <<>>
        THEN \E s \in getEClose(nfa, nfa.startstate) : s \in Range(nfa.finalstates)
        ELSE simulate_nfa(nfa, input_str)

(***************************************************************************)
(* class NFAfromRegex                                                      *)
(*                                                                         *)
(* The parser's working state is a record m:                               *)
(*   stack    : sequence of operator characters   (self.stack)             *)
(*   automata : sequence of automata              (self.automata)          *)
(*   exc      : the exception raised, NoException while none was           *)
(* An exception ends the build: every loop stops at the first one.         *)
(***************************************************************************)
star == "*"
OR == "|"
dot == "."
openingBracket == "("
closingBracket == ")"
operators == {OR, dot}
alphabet ==
    {"A", "B", "C", "D", "E", "F", "G", "H", "I", "J", "K", "L", "M",
     "N", "O", "P", "Q", "R", "S", "T", "U", "V", "W", "X", "Y", "Z",
     "a", "b", "c", "d", "e", "f", "g", "h", "i", "j", "k", "l", "m",
     "n", "o", "p", "q", "r", "s", "t", "u", "v", "w", "x", "y", "z",
     "0", "1", "2", "3", "4", "5", "6", "7", "8", "9"}

NoException == [kind |-> "none", msg |-> <<>>]
\* raise BaseException(...): the parser's own error, with the text's parts.
BaseException(msg) == [kind |-> "BaseException", msg |-> msg]
\* BuildAutomata has no attribute of that name.
AttributeError(name) == [kind |-> "AttributeError", msg |-> <<"BuildAutomata", name>>]
\* list.pop() on an empty list.
IndexError == [kind |-> "IndexError", msg |-> <<"pop from empty list">>]

Raised(m) == m.exc # NoException
Raise(m, e) == [m EXCEPT !.exc = e]
Last(q) == q[Len(q)]
Front(q) == SubSeq(q, 1, Len(q) - 1)

\* Variant enumeration: the states in descending order.
RECURSIVE Descending(_)
Descending(S) ==
    IF S = {} THEN <<>>
    ELSE LET q == CHOOSE x \in S : \A y \in S : x >= y
         IN  <<q>> \o Descending(S \ {q})

\* list(self.states) for the automata the parser builds: their states are
\* 1..N, small ints that hash to themselves, which a set enumerates ascending.
RECURSIVE Ascending(_)
Ascending(S) ==
    IF S = {} THEN <<>>
    ELSE LET q == CHOOSE x \in S : \A y \in S : x <= y
         IN  <<q>> \o Ascending(S \ {q})

processOperator(m, operator) ==
    IF Len(m.automata) = 0
    THEN Raise(m, BaseException(<<"Error processing operator", operator, "Stack is empty">>))
    ELSE IF operator = star
    THEN LET x == Last(m.automata)
         IN  [m EXCEPT !.automata =
                 Append(Front(@), starstruct(x, Ascending(x.states)))]
    ELSE IF operator \in operators
    THEN IF Len(m.automata) < 2
         THEN Raise(m, BaseException(<<"Error processing operator", operator,
                                        "Inadequate operands">>))
         ELSE LET popped == [m EXCEPT !.automata = Front(Front(@))]
              IN  \* BuildAutomata defines ORstruct and DOTstruct; the names
                  \* looked up here are plusstruct and dotstruct.
                  IF operator = OR
                  THEN Raise(popped, AttributeError("plusstruct"))
                  ELSE Raise(popped, AttributeError("dotstruct"))
    ELSE m

\* After processOperator in the loop of addOperatorToStack left the parser in
\* m1: the next pass, unless it raised.
RECURSIVE addOperatorToStack(_, _)
nextOnStack(m1, char) == IF Raised(m1) THEN m1 ELSE addOperatorToStack(m1, char)

addOperatorToStack(m, char) ==
    IF Len(m.stack) = 0
    THEN [m EXCEPT !.stack = Append(@, char)]
    ELSE LET top == Last(m.stack)
         IN  IF top = openingBracket
             THEN [m EXCEPT !.stack = Append(@, char)]
             ELSE IF top = char \/ top = dot
             THEN nextOnStack(processOperator([m EXCEPT !.stack = Front(@)], top), char)
             ELSE [m EXCEPT !.stack = Append(@, char)]

\* The while(1) loop of the closing-bracket branch.
RECURSIVE closeBracket(_, _)
nextInBracket(m2, char) == IF Raised(m2) THEN m2 ELSE closeBracket(m2, char)

closeBracket(m, char) ==
    IF Len(m.stack) = 0
    THEN Raise(m, BaseException(<<"Error processing", char, "Empty stack">>))
    ELSE LET o == Last(m.stack)
             m1 == [m EXCEPT !.stack = Front(@)]
         IN  IF o = openingBracket THEN m1
             ELSE IF o \in operators
             THEN nextInBracket(processOperator(m1, o), char)
             ELSE closeBracket(m1, char)

\* The test before a literal and before an opening bracket: a concatenation
\* is implied.
impliesConcat(previous) ==
    previous # dot /\ (previous \in alphabet \/ previous \in {closingBracket, star})

\* The tests that reject an operator by the character before it.
closingRejects(previous) == previous \in operators
\* Variant of the star test without "or itself a star".
starRejectsNoStarTest(previous) ==
    previous \in operators \/ previous = openingBracket
starRejects(previous) ==
    previous \in operators \/ previous = openingBracket \/ previous = star
operatorRejects(previous) == previous \in operators \/ previous = openingBracket

\* The statement after the implied concatenation, unless that raised.
appendBasic(m1, char) ==
    IF Raised(m1) THEN m1 ELSE [m1 EXCEPT !.automata = Append(@, basicstruct(char))]
pushBracket(m1, char) ==
    IF Raised(m1) THEN m1 ELSE [m1 EXCEPT !.stack = Append(@, char)]

\* One pass of the for loop of buildNFA, on the character char.
scanChar(m, char, previous) ==
    IF char \in alphabet
    THEN appendBasic(IF impliesConcat(previous) THEN addOperatorToStack(m, dot) ELSE m,
                     char)
    ELSE IF char = openingBracket
    THEN pushBracket(IF impliesConcat(previous) THEN addOperatorToStack(m, dot) ELSE m,
                     char)
    ELSE IF char = closingBracket
    THEN IF closingRejects(previous)
         THEN Raise(m, BaseException(<<"Error processing", char, "after", previous>>))
         ELSE closeBracket(m, char)
    ELSE IF char = star
    THEN IF starRejects(previous)
         THEN Raise(m, BaseException(<<"Error processing", char, "after", previous>>))
         ELSE processOperator(m, char)
    ELSE IF char \in operators
    THEN IF operatorRejects(previous)
         THEN Raise(m, BaseException(<<"Error processing", char, "after", previous>>))
         ELSE addOperatorToStack(m, char)
    ELSE Raise(m, BaseException(<<"Symbol", char, "is not allowed">>))

\* The loop after the scan: every operator left on the stack is applied.
RECURSIVE drainStack(_)
nextDrain(m1) == IF Raised(m1) THEN m1 ELSE drainStack(m1)

drainStack(m) ==
    IF Len(m.stack) = 0 THEN m
    ELSE nextDrain(processOperator([m EXCEPT !.stack = Front(@)], Last(m.stack)))

\* The end of buildNFA: the drain, the test for leftover operands, the pop.
\* The statements after the drain, unless that raised.
popNFA(m1) ==
    IF Raised(m1) THEN m1
    ELSE IF Len(m1.automata) > 1
    THEN Raise(m1, BaseException(<<"Regex could not be parsed successfully">>))
    ELSE IF Len(m1.automata) = 0
    THEN Raise(m1, IndexError)
    ELSE m1

finishBuild(m) == popNFA(drainStack(m))

(***************************************************************************)
(* Bounds of the model                                                     *)
(***************************************************************************)
MaxId == 2
MaxEdges == 2
MaxEdgesB == 1
MaxLen == 3
MaxRegexLen == 4
MaxCloseId == 3
MaxCloseEdges == 3
MaxSims == 2
MaxApiEdges == 2
MaxOperands == 2
MaxBuildStates == 8
MaxFinalArgs == 2
MaxSimLen == 2

Sigma == {"a", "b"}
Ids == 1..MaxId
Offsets == 1..(MaxId + 1)
StringsOver(chars, n) == UNION {[1..k -> chars] : k \in 0..n}
Strings == StringsOver(Sigma, MaxLen)
RawInputs == StringsOver(Sigma \cup {" "}, MaxLen)

\* The enumerations of a finite set: what list(set) can return.
Orders(S) == {o \in [1..Cardinality(S) -> S] : Range(o) = S}

RECURSIVE SubsetsUpTo(_, _)
SubsetsUpTo(E, n) ==
    IF n = 0 THEN {{}}
    ELSE LET P == SubsetsUpTo(E, n - 1) IN P \cup {X \cup {e} : X \in P, e \in E}

\* Automata as setstartstate, addfinalstates and addtransition build them:
\* states holds the start state and the endpoints of the transitions.  Every
\* final state is a member of states (spec section 3).  Any identifiers from
\* Ids, any start state, one or two final states, at most n transitions.
FinalLists(S) == {<<f>> : f \in S} \cup {p \in S \X S : p[1] # p[2]}
AutomataUpTo(n) ==
    {[states |-> {q0} \cup {t[1] : t \in T} \cup {t[2] : t \in T},
      startstate |-> q0, finalstates |-> fs, transitions |-> T] :
        q0 \in Ids, fs \in FinalLists(Ids),
        T \in SubsetsUpTo(Ids \X Ids \X (Sigma \cup {epsilon}), n)}
WellFormed(A) == Range(A.finalstates) \subseteq A.states
OneFinal(A) == Len(A.finalstates) = 1
AutomataSet == {A \in AutomataUpTo(MaxEdges) : WellFormed(A)}
\* The operands of a binary combinator have one final state; the second
\* operand has at most MaxEdgesB transitions.
OperandSet == {A \in AutomataUpTo(MaxEdges) : WellFormed(A) /\ OneFinal(A)}
OperandSetB == {A \in AutomataUpTo(MaxEdgesB) : WellFormed(A) /\ OneFinal(A)}

(***************************************************************************)
(* State                                                                   *)
(***************************************************************************)
VARIABLES
    regex,      \* NFAfromRegex.regex: the text being parsed
    pos,        \* index of the next character of the scan
    previous,   \* buildNFA's previous
    stack,      \* NFAfromRegex.stack: pending operators
    automata,   \* NFAfromRegex.automata: operand stack
    language,   \* buildNFA's language
    pc,         \* "scan", "done" (or "idle" when no build runs)
    exc,        \* the exception that ended the build, or NoException
    nfa,        \* NFAfromRegex.nfa, or NoAutomaton while the attribute is unset
    a, b,       \* the automata an operation was applied to
    op,         \* the operation applied: "init" before any
    out,        \* the automaton the operation returned
    startnum,   \* newBuildFromNumber's argument
    nextnum,    \* newBuildFromNumber's second result
    ordera,     \* list(a.states) as newBuildFromNumber enumerated it
    orderb,     \* list(b.states) as newBuildFromNumber enumerated it
    testVar,    \* the test string entered
    result,     \* the verdict of the acceptance test
    findstate,  \* getEClose's argument
    allstates,  \* getEClose's allstates
    states,     \* getEClose's states: the worklist
    sims        \* the simulations running on one built automaton

parserVars == <<regex, pos, previous, stack, automata, language, pc, exc, nfa>>
combVars == <<a, b, op, out, startnum, nextnum, ordera, orderb, testVar, result>>
simVars == <<findstate, allstates, states, sims>>
vars == <<regex, pos, previous, stack, automata, language, pc, exc, nfa,
          a, b, op, out, startnum, nextnum, ordera, orderb, testVar, result,
          findstate, allstates, states, sims>>

NoAutomaton == [unset |-> TRUE]

ParserIdle ==
    /\ regex = <<>> /\ pos = 1 /\ previous = "::e::" /\ stack = <<>>
    /\ automata = <<>> /\ language = {} /\ pc = "idle" /\ exc = NoException
    /\ nfa = NoAutomaton

SimIdle == findstate = None /\ allstates = {} /\ states = {} /\ sims = <<>>

CombIdle ==
    /\ a = NewAutomata /\ b = NewAutomata /\ op = "idle" /\ out = NewAutomata
    /\ startnum = 0 /\ nextnum = 0 /\ ordera = <<>> /\ orderb = <<>>
    /\ testVar = <<>> /\ result = FALSE

(***************************************************************************)
(* The combinators and the simulator applied to drawn automata             *)
(***************************************************************************)
InitComb ==
    /\ ParserIdle
    /\ SimIdle
    /\ a \in AutomataSet
    /\ b = NewAutomata /\ op = "init" /\ out = NewAutomata
    /\ startnum = 0 /\ nextnum = 0 /\ ordera = <<>> /\ orderb = <<>>
    /\ testVar = <<>> /\ result = FALSE

TestString ==
    /\ op = "init"
    /\ \E tv \in RawInputs :
        /\ testVar' = tv
        /\ result' = handleTestStringButton(a, tv)
    /\ op' = "test"
    /\ UNCHANGED <<a, b, out, startnum, nextnum, ordera, orderb>>
    /\ UNCHANGED <<parserVars, simVars>>

Renumber ==
    /\ op = "init"
    /\ \E k \in Offsets, order \in Orders(a.states) :
        LET r == newBuildFromNumber(a, k, order)
        IN  /\ startnum' = k
            /\ ordera' = order
            /\ out' = r.rebuild
            /\ nextnum' = r.startnum
    /\ op' = "renumber"
    /\ UNCHANGED <<a, b, orderb, testVar, result>>
    /\ UNCHANGED <<parserVars, simVars>>

\* The operands are drawn from OperandSet and OperandSetB.
Union ==
    /\ op = "init"
    /\ a \in OperandSet
    /\ \E b1 \in OperandSetB, oa \in Orders(a.states) :
        \E ob \in Orders(b1.states) :
            /\ b' = b1
            /\ ordera' = oa
            /\ orderb' = ob
            /\ out' = ORstruct(a, b1, oa, ob)
    /\ op' = "union"
    /\ UNCHANGED <<a, startnum, nextnum, testVar, result>>
    /\ UNCHANGED <<parserVars, simVars>>

Concat ==
    /\ op = "init"
    /\ a \in OperandSet
    /\ \E b1 \in OperandSetB, oa \in Orders(a.states) :
        \E ob \in Orders(b1.states) :
            /\ b' = b1
            /\ ordera' = oa
            /\ orderb' = ob
            /\ out' = DOTstruct(a, b1, oa, ob)
    /\ op' = "concat"
    /\ UNCHANGED <<a, startnum, nextnum, testVar, result>>
    /\ UNCHANGED <<parserVars, simVars>>

Star ==
    /\ op = "init"
    /\ \E oa \in Orders(a.states) :
        /\ ordera' = oa
        /\ out' = starstruct(a, oa)
    /\ op' = "star"
    /\ UNCHANGED <<a, b, startnum, nextnum, orderb, testVar, result>>
    /\ UNCHANGED <<parserVars, simVars>>

NextComb == TestString \/ Renumber \/ Union \/ Concat \/ Star

SpecComb == InitComb /\ [][NextComb]_vars

(***************************************************************************)
(* getEClose, one pass of its while loop per step; set.pop() takes any     *)
(* member of the worklist                                                  *)
(***************************************************************************)
CloseIds == 1..MaxCloseId
\* The transition relations getEClose runs on: any edges, cycles included.
CloseAutomata ==
    {[states |-> {q0} \cup {t[1] : t \in T} \cup {t[2] : t \in T},
      startstate |-> q0, finalstates |-> <<>>, transitions |-> T] :
        q0 \in CloseIds,
        T \in SubsetsUpTo(CloseIds \X CloseIds \X {"a", epsilon}, MaxCloseEdges)}

InitClose ==
    /\ ParserIdle
    /\ a \in CloseAutomata
    /\ b = NewAutomata /\ op = "closing" /\ out = NewAutomata
    /\ startnum = 0 /\ nextnum = 0 /\ ordera = <<>> /\ orderb = <<>>
    /\ testVar = <<>> /\ result = FALSE
    /\ findstate = a.startstate
    /\ allstates = {}
    /\ states = {findstate}
    /\ sims = <<>>

\* One pass of the loop: pop any state, add it, add its unseen epsilon targets.
ClosePop ==
    /\ op = "closing"
    /\ states # {}
    /\ \E state \in states :
        /\ allstates' = allstates \cup {state}
        /\ states' = (states \ {state}) \cup epsilonTargets(a, allstates \cup {state}, state)
    /\ UNCHANGED <<a, b, op, out, startnum, nextnum, ordera, orderb, testVar, result>>
    /\ UNCHANGED <<findstate, sims>>
    /\ UNCHANGED parserVars

\* The loop ends on the empty worklist: return allstates.
CloseReturn ==
    /\ op = "closing"
    /\ states = {}
    /\ op' = "closed"
    /\ UNCHANGED <<a, b, out, startnum, nextnum, ordera, orderb, testVar, result>>
    /\ UNCHANGED <<parserVars, simVars>>

NextClose == ClosePop \/ CloseReturn

\* The loop keeps running until it returns.
SpecClose == InitClose /\ [][NextClose]_vars /\ WF_vars(NextClose)

(***************************************************************************)
(* Simulations of several inputs on one built automaton, a call of dfs per *)
(* step, in any interleaving                                               *)
(***************************************************************************)
SimIds == 1..MaxSims
SimInputs == StringsOver(Sigma, MaxSimLen)

\* a is the automaton the simulations run on, out the automaton as built.
InitSim ==
    /\ ParserIdle
    /\ a \in AutomataSet
    /\ out = a
    /\ b = NewAutomata /\ op = "simulate"
    /\ startnum = 0 /\ nextnum = 0 /\ ordera = <<>> /\ orderb = <<>>
    /\ testVar = <<>> /\ result = FALSE
    /\ findstate = None /\ allstates = {} /\ states = {}
    /\ sims \in [SimIds -> {[input_string |-> w, states |-> {}, index |-> 0,
                             pc |-> "call", verdict |-> FALSE] : w \in SimInputs}]

SimFrame ==
    /\ UNCHANGED <<b, op, out, startnum, nextnum, ordera, orderb, testVar, result>>
    /\ UNCHANGED <<findstate, allstates, states>>
    /\ UNCHANGED parserVars

\* simulate_nfa: start_states, then the first call of dfs.
SimStart(i) ==
    /\ sims[i].pc = "call"
    /\ sims' = [sims EXCEPT ![i].states = getEClose(a, a.startstate),
                            ![i].pc = "dfs"]
    /\ a' = automatonAfter(a, getEClose(a, a.startstate))
    /\ SimFrame

\* dfs before the end of the input: next_states, then the recursive call.
SimStep(i) ==
    /\ sims[i].pc = "dfs"
    /\ sims[i].index < Len(sims[i].input_string)
    /\ sims' = [sims EXCEPT
                  ![i].states = dfsNextStates(a, sims[i].states,
                                              sims[i].input_string[sims[i].index + 1]),
                  ![i].index = @ + 1]
    /\ a' = automatonAfter(a, dfsNextStates(a, sims[i].states,
                                            sims[i].input_string[sims[i].index + 1]))
    /\ SimFrame

\* dfs at the end of the input: the verdict.
SimReturn(i) ==
    /\ sims[i].pc = "dfs"
    /\ sims[i].index = Len(sims[i].input_string)
    /\ sims' = [sims EXCEPT ![i].verdict = dfsVerdict(a, sims[i].states),
                            ![i].pc = "done"]
    /\ a' = automatonAfter(a, sims[i].states)
    /\ SimFrame

NextSim == \E i \in SimIds : SimStart(i) \/ SimStep(i) \/ SimReturn(i)

SpecSim == InitSim /\ [][NextSim]_vars

(***************************************************************************)
(* An automaton under construction: any sequence of setstartstate,         *)
(* addfinalstates and addtransition calls on a new Automata                *)
(***************************************************************************)
InitApi ==
    /\ ParserIdle
    /\ SimIdle
    /\ a = NewAutomata
    /\ b = NewAutomata /\ op = "api" /\ out = NewAutomata
    /\ startnum = 0 /\ nextnum = 0 /\ ordera = <<>> /\ orderb = <<>>
    /\ testVar = <<>> /\ result = FALSE

ApiFrame ==
    /\ UNCHANGED <<b, op, out, startnum, nextnum, ordera, orderb, testVar, result>>
    /\ UNCHANGED <<parserVars, simVars>>

SetStart ==
    /\ op = "api"
    /\ \E q \in Ids : a' = setstartstate(a, q)
    /\ ApiFrame

\* addfinalstates(int)
AddFinal ==
    /\ op = "api"
    /\ \E q \in Ids : a' = addfinalstates(a, q)
    /\ ApiFrame

\* addfinalstates(list), the list possibly naming a state twice
AddFinals ==
    /\ op = "api"
    /\ \E lst \in StringsOver(Ids, MaxFinalArgs) : a' = addfinalstatesList(a, lst)
    /\ ApiFrame

\* addtransition with one symbol or a set of symbols
AddTransition ==
    /\ op = "api"
    /\ Cardinality(a.transitions) < MaxApiEdges
    /\ \E q \in Ids, q2 \in Ids, inp \in (SUBSET (Sigma \cup {epsilon})) \ {{}} :
         a' = addtransition(a, q, q2, inp)
    /\ ApiFrame

NextApi == SetStart \/ AddFinal \/ AddFinals \/ AddTransition

SpecApi == InitApi /\ [][NextApi]_vars

(***************************************************************************)
(* BuildAutomata applied to its own results: automata made from literals   *)
(* by basicstruct, ORstruct, DOTstruct and starstruct, kept on a stack     *)
(***************************************************************************)
InitBuild ==
    /\ ParserIdle
    /\ SimIdle
    /\ a = NewAutomata /\ b = NewAutomata /\ op = "build" /\ out = NewAutomata
    /\ startnum = 0 /\ nextnum = 0 /\ ordera = <<>> /\ orderb = <<>>
    /\ testVar = <<>> /\ result = FALSE

BuildFrame ==
    /\ UNCHANGED <<regex, pos, previous, stack, language, pc, exc, nfa>>
    /\ UNCHANGED <<startnum, nextnum, testVar, result>>
    /\ UNCHANGED simVars

\* The composite of x and y, with extra new states, stays within the bound.
Fits(x, y, extra) ==
    Cardinality(x.states) + Cardinality(y.states) + extra <= MaxBuildStates

BuildLiteral ==
    /\ op \in {"build", "literal", "union", "concat", "star"}
    /\ Len(automata) < MaxOperands
    /\ \E c \in Sigma :
        /\ automata' = Append(automata, basicstruct(c))
        /\ out' = basicstruct(c)
    /\ op' = "literal"
    /\ UNCHANGED <<a, b, ordera, orderb>>
    /\ BuildFrame

BuildStar ==
    /\ op \in {"literal", "union", "concat", "star"}
    /\ Len(automata) >= 1
    /\ Fits(Last(automata), NewAutomata, 2)
    /\ a' = Last(automata)
    /\ ordera' = Ascending(Last(automata).states)
    /\ out' = starstruct(Last(automata), Ascending(Last(automata).states))
    /\ automata' = Append(Front(automata),
                          starstruct(Last(automata), Ascending(Last(automata).states)))
    /\ op' = "star"
    /\ UNCHANGED <<b, orderb>>
    /\ BuildFrame

\* The two topmost automata x and y are replaced by their composite.
BuildBinary(x, y, composite, name) ==
    /\ a' = x
    /\ b' = y
    /\ ordera' = Ascending(x.states)
    /\ orderb' = Ascending(y.states)
    /\ out' = composite
    /\ automata' = Append(Front(Front(automata)), composite)
    /\ op' = name
    /\ BuildFrame

BuildUnion ==
    /\ op \in {"literal", "union", "concat", "star"}
    /\ Len(automata) >= 2
    /\ Fits(Last(Front(automata)), Last(automata), 2)
    /\ BuildBinary(Last(Front(automata)), Last(automata),
                   ORstruct(Last(Front(automata)), Last(automata),
                            Ascending(Last(Front(automata)).states),
                            Ascending(Last(automata).states)),
                   "union")

BuildConcat ==
    /\ op \in {"literal", "union", "concat", "star"}
    /\ Len(automata) >= 2
    /\ Fits(Last(Front(automata)), Last(automata), 0)
    /\ BuildBinary(Last(Front(automata)), Last(automata),
                   DOTstruct(Last(Front(automata)), Last(automata),
                             Ascending(Last(Front(automata)).states),
                             Ascending(Last(automata).states)),
                   "concat")

NextBuild == BuildLiteral \/ BuildStar \/ BuildUnion \/ BuildConcat

SpecBuild == InitBuild /\ [][NextBuild]_vars

(***************************************************************************)
(* One build: NFAfromRegex(regex), a character of the scan per step        *)
(***************************************************************************)
RegexChars == {"a", "b", OR, dot, star, openingBracket, closingBracket, "+"}
\* The start regex of the GUI.
startRegex == <<"(", "0", "+", "1", ")", "*", ".", "0", ".", "1", "*", ".", "0">>
Scenarios ==
    {<<"(", "a", "|", "b", ")", "*", "c">>, <<"(", "a", "*", ")", "*">>, startRegex}
Regexes == StringsOver(RegexChars, MaxRegexLen) \cup Scenarios

Init ==
    /\ regex \in Regexes
    /\ pos = 1 /\ previous = "::e::" /\ stack = <<>> /\ automata = <<>>
    /\ language = {} /\ pc = "scan" /\ exc = NoException /\ nfa = NoAutomaton
    /\ CombIdle
    /\ SimIdle

\* The state after one pass of the for loop left the parser in m1; an
\* exception leaves the loop and the build.
Scanned(m1, char) ==
    /\ stack' = m1.stack
    /\ automata' = m1.automata
    /\ exc' = m1.exc
    /\ language' = IF char \in alphabet THEN language \cup {char} ELSE language
    /\ IF Raised(m1)
       THEN pc' = "done" /\ UNCHANGED <<pos, previous>>
       ELSE pc' = "scan" /\ pos' = pos + 1 /\ previous' = char
    /\ UNCHANGED <<regex, nfa>>
    /\ UNCHANGED <<combVars, simVars>>

Scan(char) ==
    Scanned(scanChar([stack |-> stack, automata |-> automata, exc |-> exc],
                     char, previous), char)

Scanning == pc = "scan" /\ pos <= Len(regex)

ScanLiteral == Scanning /\ regex[pos] \in alphabet /\ Scan(regex[pos])

ScanOpen == Scanning /\ regex[pos] = openingBracket /\ Scan(regex[pos])

ScanClose == Scanning /\ regex[pos] = closingBracket /\ Scan(regex[pos])

ScanStar == Scanning /\ regex[pos] = star /\ Scan(regex[pos])

ScanOperator == Scanning /\ regex[pos] \in operators /\ Scan(regex[pos])

ScanOther ==
    /\ Scanning
    /\ regex[pos] \notin alphabet \cup operators \cup {openingBracket, closingBracket, star}
    /\ Scan(regex[pos])

\* The state after the end of buildNFA left the parser in m1.
Finished(m1) ==
    /\ stack' = m1.stack
    /\ exc' = m1.exc
    /\ IF Raised(m1)
       THEN automata' = m1.automata /\ nfa' = nfa
       ELSE automata' = Front(m1.automata) /\ nfa' = Last(m1.automata)
    /\ pc' = "done"
    /\ UNCHANGED <<regex, pos, previous, language>>
    /\ UNCHANGED <<combVars, simVars>>

\* After the scan: drain the stack, take the one automaton left.
Finish ==
    /\ pc = "scan" /\ pos > Len(regex)
    /\ Finished(finishBuild([stack |-> stack, automata |-> automata, exc |-> exc]))

Next ==
    \/ ScanLiteral \/ ScanOpen \/ ScanClose \/ ScanStar \/ ScanOperator
    \/ ScanOther \/ Finish

Spec == Init /\ [][Next]_vars

Built == pc = "done" /\ exc = NoException /\ nfa # NoAutomaton
Failed == pc = "done" /\ exc # NoException /\ nfa = NoAutomaton

(***************************************************************************)
(* Reference matcher: the language of a regex text, by its grammar         *)
(*   U ::= C | U "|" C      C ::= S | C S | C "." S                        *)
(*   S ::= A | A "*"        A ::= literal | "(" U ")"                      *)
(* over the span i..j of the text r.                                       *)
(***************************************************************************)
RECURSIVE IsUnion(_, _, _), IsConcat(_, _, _), IsAtom(_, _, _)
IsAtom(r, i, j) ==
    \/ i = j /\ r[i] \in alphabet
    \/ /\ i < j /\ r[i] = openingBracket /\ r[j] = closingBracket
       /\ IsUnion(r, i + 1, j - 1)

IsStarred(r, i, j) ==
    i <= j /\ (IsAtom(r, i, j) \/ (i < j /\ r[j] = star /\ IsAtom(r, i, j - 1)))

IsConcat(r, i, j) ==
    \/ IsStarred(r, i, j)
    \/ \E k \in i..(j - 1) :
         /\ IsConcat(r, i, k)
         /\ \/ IsStarred(r, k + 1, j)
            \/ r[k + 1] = dot /\ IsStarred(r, k + 2, j)

IsUnion(r, i, j) ==
    /\ i <= j
    /\ \/ IsConcat(r, i, j)
       \/ \E k \in (i + 1)..(j - 1) :
            r[k] = OR /\ IsUnion(r, i, k - 1) /\ IsConcat(r, k + 1, j)

WellFormedRegex(r) == IsUnion(r, 1, Len(r))

RECURSIVE MatchUnion(_, _, _, _), MatchConcat(_, _, _, _), MatchAtom(_, _, _, _),
          MatchStar(_, _, _, _)
MatchAtom(r, i, j, s) ==
    IF i = j THEN s = <<r[i]>> ELSE MatchUnion(r, i + 1, j - 1, s)

MatchStar(r, i, j, s) ==
    \/ s = <<>>
    \/ \E n \in 1..Len(s) :
         /\ MatchAtom(r, i, j, SubSeq(s, 1, n))
         /\ MatchStar(r, i, j, SubSeq(s, n + 1, Len(s)))

MatchStarred(r, i, j, s) ==
    IF IsAtom(r, i, j) THEN MatchAtom(r, i, j, s) ELSE MatchStar(r, i, j - 1, s)

MatchConcat(r, i, j, s) ==
    \/ IsStarred(r, i, j) /\ MatchStarred(r, i, j, s)
    \/ \E k \in i..(j - 1) :
         /\ IsConcat(r, i, k)
         /\ \E h \in {k + 1, k + 2} :
              /\ h = k + 2 => r[k + 1] = dot
              /\ IsStarred(r, h, j)
              /\ \E n \in 0..Len(s) :
                   /\ MatchConcat(r, i, k, SubSeq(s, 1, n))
                   /\ MatchStarred(r, h, j, SubSeq(s, n + 1, Len(s)))

MatchUnion(r, i, j, s) ==
    \/ IsConcat(r, i, j) /\ MatchConcat(r, i, j, s)
    \/ \E k \in (i + 1)..(j - 1) :
         /\ r[k] = OR /\ IsUnion(r, i, k - 1) /\ IsConcat(r, k + 1, j)
         /\ (MatchUnion(r, i, k - 1, s) \/ MatchConcat(r, k + 1, j, s))

RefMatch(r, s) == MatchUnion(r, 1, Len(r), s)

(***************************************************************************)
(* Claims about the build (Spec)                                           *)
(***************************************************************************)
Accepts(s) == nfa # NoAutomaton /\ simulate_nfa(nfa, s)

\* C1: for every well-formed regex the build returns an automaton and the
\* simulator accepts exactly the strings of the regex's language; "ab"
\* accepts "ab" and rejects "a", "b", "", "ba"; "a|b" accepts "a", "b" and
\* rejects "ab", ""; "(a|b)*c" accepts "c", "abababc" and rejects "ab", "".
C1_BuildAcceptsLanguage ==
    pc = "done" =>
        /\ WellFormedRegex(regex) =>
             /\ Built
             /\ \A s \in Strings : Accepts(s) <=> RefMatch(regex, s)
        /\ regex = <<"a", "b">> =>
             /\ Accepts(<<"a", "b">>)
             /\ ~Accepts(<<"a">>) /\ ~Accepts(<<"b">>) /\ ~Accepts(<<>>)
             /\ ~Accepts(<<"b", "a">>)
        /\ regex = <<"a", "|", "b">> =>
             /\ Accepts(<<"a">>) /\ Accepts(<<"b">>)
             /\ ~Accepts(<<"a", "b">>) /\ ~Accepts(<<>>)
        /\ regex = <<"(", "a", "|", "b", ")", "*", "c">> =>
             /\ Accepts(<<"c">>) /\ Accepts(<<"a", "b", "a", "b", "a", "b", "c">>)
             /\ ~Accepts(<<"a", "b">>) /\ ~Accepts(<<>>)

\* C6: the regex "(0+1)*.0.1*.0" builds, and the automaton accepts "00" and
\* "0110" and rejects "1" and "".
C6_StartRegexBuilds ==
    (pc = "done" /\ regex = startRegex) =>
        /\ Built
        /\ Accepts(<<"0", "0">>) /\ Accepts(<<"0", "1", "1", "0">>)
        /\ ~Accepts(<<"1">>) /\ ~Accepts(<<>>)

\* An operator with no left operand: a star that starts the regex or follows
\* a binary operator, an opening bracket or a star; a binary operator that
\* follows a binary operator or an opening bracket.
NoLeftOperandAt(r, i) ==
    \/ r[i] = star /\ (i = 1 \/ r[i - 1] \in operators \cup {openingBracket, star})
    \/ r[i] \in operators /\ i > 1 /\ r[i - 1] \in operators \cup {openingBracket}

NoLeftOperand(r) == \E i \in 1..Len(r) : NoLeftOperandAt(r, i)

\* C7: an operator with no left operand always makes the build fail with an
\* error and never yields an automaton.
C7_NoLeftOperandFails ==
    (pc = "done" /\ NoLeftOperand(regex)) => Failed

\* The scan reached a star after a star, and the build failed there.
C7_Witness ==
    /\ pc = "done" /\ Failed
    /\ pos > 1 /\ pos <= Len(regex) /\ regex[pos] = star /\ previous = star
    /\ NoLeftOperandAt(regex, pos)
    /\ exc = BaseException(<<"Error processing", star, "after", star>>)

\* The text has more opening than closing brackets.
Count(r, c) == Cardinality({i \in 1..Len(r) : r[i] = c})
UnmatchedOpening(r) == Count(r, openingBracket) > Count(r, closingBracket)

\* C8: a regex that leaves an opening bracket unmatched at the end of the
\* scan, such as "(a", fails to build with an error; no automaton is
\* returned for it.
C8_UnmatchedOpeningFails ==
    (pc = "done" /\ UnmatchedOpening(regex)) => (Failed /\ exc.kind = "BaseException")

\* C9: a build either returns a completed automaton or fails with the
\* parser's own error; it never fails with any other kind of error, and after
\* a failure no automaton is available.
C9_BuiltOrParserError ==
    pc = "done" => (Built \/ (Failed /\ exc.kind = "BaseException"))

\* What the precedence-resolution step leaves of the operator stack stk when
\* the operator c arrives: the operators on top that are not an opening
\* bracket and are equal to c or are the concatenation are popped.
RECURSIVE KeptStack(_, _)
KeptStack(stk, c) ==
    IF stk = <<>> THEN stk
    ELSE IF Last(stk) # openingBracket /\ (Last(stk) = c \/ Last(stk) = dot)
    THEN KeptStack(Front(stk), c)
    ELSE stk

Popped(stk, c) == Len(stk) - Len(KeptStack(stk, c))

\* C13: when a binary operator arrives during the scan (and the operand stack
\* holds an operand pair for every operator to apply), the step pops and
\* applies every operator on top of the stack that is not an opening bracket
\* and is equal to the incoming one or is the concatenation, each application
\* replacing two operands by one, and only then pushes the incoming operator;
\* nothing below an opening bracket is popped.
C13_PrecedenceResolution ==
    [][(/\ Scanning
        /\ regex[pos] \in operators
        /\ ~operatorRejects(previous)
        /\ Len(automata) > Popped(stack, regex[pos]))
       => (/\ exc' = NoException
           /\ stack' = Append(KeptStack(stack, regex[pos]), regex[pos])
           /\ Len(automata') = Len(automata) - Popped(stack, regex[pos]))]_vars

\* The identifiers an operand with n states gets when renumbered from k.
Renumbered(k, n) == k..(k + n - 1)

\* C14: in every composite built by Union, Concat or Star the identifiers of
\* the renumbered operands and the new start and final states do not
\* coincide, and the composite's state set is their disjoint union:
\* |a|+|b|+2 states for Union, |a|+|b| for Concat, |a|+2 for Star.
C14_DisjointIdentifiers ==
    LET na == Cardinality(a.states)
        nb == Cardinality(b.states)
    IN  /\ op = "union" =>
             /\ out.states = {1} \cup Renumbered(2, na) \cup Renumbered(2 + na, nb)
                                \cup {2 + na + nb}
             /\ newBuildFromNumber(a, 2, ordera).rebuild.states = Renumbered(2, na)
             /\ newBuildFromNumber(b, 2 + na, orderb).rebuild.states = Renumbered(2 + na, nb)
             /\ Cardinality(out.states) = na + nb + 2
        /\ op = "concat" =>
             /\ out.states = Renumbered(1, na) \cup Renumbered(1 + na, nb)
             /\ newBuildFromNumber(a, 1, ordera).rebuild.states = Renumbered(1, na)
             /\ newBuildFromNumber(b, 1 + na, orderb).rebuild.states = Renumbered(1 + na, nb)
             /\ Cardinality(out.states) = na + nb
        /\ op = "star" =>
             /\ out.states = {1} \cup Renumbered(2, na) \cup {2 + na}
             /\ newBuildFromNumber(a, 2, ordera).rebuild.states = Renumbered(2, na)
             /\ Cardinality(out.states) = na + 2

\* C15: after any sequence of setstartstate, addfinalstates and addtransition
\* calls every identifier in finalstates is a member of states, and
\* finalstates holds no identifier twice.
C15_FinalsAmongStates ==
    op = "api" =>
        /\ Range(a.finalstates) \subseteq a.states
        /\ \A i \in DOMAIN a.finalstates, j \in DOMAIN a.finalstates :
             a.finalstates[i] = a.finalstates[j] => i = j

\* States 1..N, start state 1, the single final state N, no transition into
\* the start state and none out of the final state.
Canonical(A) ==
    /\ A.states = 1..Cardinality(A.states)
    /\ A.startstate = 1
    /\ A.finalstates = <<Cardinality(A.states)>>
    /\ \A t \in A.transitions : t[2] # 1 /\ t[1] # Cardinality(A.states)

\* C16: every automaton obtained from the literal constructor by any sequence
\* of Union, Concat and Star applications (states enumerated ascending) has
\* states 1..N, start state 1 and the single final state N, with no
\* transition into the start state and none out of the final state; so the
\* start state 1 and final state m2-1 that Concat fixes are its renumbered
\* operands' own start and final states.
C16_BuiltAutomataCanonical ==
    op \in {"literal", "union", "concat", "star"} =>
        /\ \A i \in DOMAIN automata : Canonical(automata[i])
        /\ Canonical(out)
        /\ op = "concat" =>
             /\ out.startstate =
                  newBuildFromNumber(a, 1, ordera).rebuild.startstate
             /\ out.finalstates =
                  newBuildFromNumber(b, 1 + Cardinality(a.states),
                                     orderb).rebuild.finalstates

\* A concatenation of two composites, each made with epsilon edges by Union
\* or Star, that has the states of both and is alone on the stack.
C16_Witness ==
    /\ op = "concat"
    /\ Cardinality(out.states) = Cardinality(a.states) + Cardinality(b.states)
    /\ Cardinality(a.states) >= 4
    /\ Cardinality(b.states) >= 4
    /\ \E t \in a.transitions : t[3] = epsilon
    /\ \E t \in b.transitions : t[3] = epsilon
    /\ Len(automata) = 1
    /\ automata[1] = out

\* C11: getEClose terminates on every transition relation, epsilon cycles
\* included, whatever member of the worklist each pass pops; the closure it
\* returns is idempotent: the closure of each member adds no state to it.
C11_ClosureTerminatesIdempotent ==
    /\ <>(op = "closed")
    /\ [](op = "closed" =>
            /\ findstate \in allstates
            /\ \A q \in allstates : getEClose(a, q) \subseteq allstates
            /\ \A t \in a.transitions :
                 (t[1] \in allstates /\ t[3] = epsilon) => t[2] \in allstates)

\* A closure returned where the first pass left two states to pop from and an
\* epsilon edge leads back to the state the closure started from.
C11_Witness ==
    /\ op = "closed"
    /\ Cardinality(allstates) = 3
    /\ \A q \in allstates \ {findstate} : <<findstate, q, epsilon>> \in a.transitions
    /\ \E q \in allstates \ {findstate} : <<q, findstate, epsilon>> \in a.transitions

Nodes(A) == A.states \cup {A.startstate} \cup Range(A.finalstates)
               \cup {t[1] : t \in A.transitions} \cup {t[2] : t \in A.transitions}

\* States reachable from S by at most n epsilon edges, one round per edge.
RECURSIVE EpsRounds(_, _, _)
EpsRounds(A, S, n) ==
    IF n = 0 THEN S
    ELSE EpsRounds(A, S \cup {t[2] : t \in {u \in A.transitions :
                                   u[1] \in S /\ u[3] = epsilon}}, n - 1)

ClosureOfSet(A, S) == EpsRounds(A, S, Cardinality(Nodes(A)))

\* The current set after the first i symbols of input (spec section 4.4).
RECURSIVE CurrentSet(_, _, _)
CurrentSet(A, input, i) ==
    IF i = 0 THEN ClosureOfSet(A, {A.startstate})
    ELSE ClosureOfSet(A, {t[2] : t \in {u \in A.transitions :
                            u[1] \in CurrentSet(A, input, i - 1) /\ u[3] = input[i]}})

\* Some path of at most fuel edges from q to a final state spells input,
\* epsilon edges spelling nothing.
RECURSIVE PathSpells(_, _, _, _)
PathSpells(A, q, input, fuel) ==
    \/ input = <<>> /\ q \in Range(A.finalstates)
    \/ /\ fuel > 0
       /\ \E t \in A.transitions :
            /\ t[1] = q
            /\ \/ t[3] = epsilon /\ PathSpells(A, t[2], input, fuel - 1)
               \/ /\ input # <<>> /\ t[3] = Head(input)
                  /\ PathSpells(A, t[2], Tail(input), fuel - 1)

PathAccepts(A, input) ==
    PathSpells(A, A.startstate, input, Cardinality(Nodes(A)) * (Len(input) + 1))

\* s is a concatenation of zero or more strings the simulator accepts on A.
RECURSIVE Decomposes(_, _)
Decomposes(A, s) ==
    \/ s = <<>>
    \/ \E i \in 1..Len(s) :
         /\ simulate_nfa(A, SubSeq(s, 1, i))
         /\ Decomposes(A, SubSeq(s, i + 1, Len(s)))

(***************************************************************************)
(* Claims about the simulator and the combinators (SpecComb)               *)
(***************************************************************************)
\* C2: the verdict of the acceptance test on the input it tests is true
\* exactly when the set reached from the epsilon-closure of the start state,
\* by taking for each symbol the direct transitions and then the closure,
\* holds a final state; exactly when some path from the start state to a
\* final state spells the input; for the empty input it is decided by the
\* closure of the start state, and once the current set is empty it is reject.
C2_AcceptsIsClosureRun ==
    op = "test" =>
        LET input == strip(testVar)
            finals == Range(a.finalstates)
        IN  /\ result = (CurrentSet(a, input, Len(input)) \cap finals # {})
            /\ result = PathAccepts(a, input)
            /\ input = <<>> => result = (ClosureOfSet(a, {a.startstate}) \cap finals # {})
            /\ (\E i \in 0..Len(input) : CurrentSet(a, input, i) = {}) => ~result

C2_Witness ==
    /\ op = "test" /\ result /\ Len(strip(testVar)) = 2
    /\ \E t \in a.transitions : t[3] = epsilon
    /\ a.startstate \notin Range(a.finalstates)

C4_ConcatAcceptsJoined ==
    (op = "concat" /\ OneFinal(a) /\ OneFinal(b)) =>
        LET ra == newBuildFromNumber(a, 1, ordera)
            rb == newBuildFromNumber(b, ra.startnum, orderb)
        IN  /\ out.startstate = ra.rebuild.startstate
            /\ out.finalstates = <<rb.rebuild.finalstates[1]>>
            /\ \A s1 \in Strings, s2 \in Strings :
                 (simulate_nfa(a, s1) /\ simulate_nfa(b, s2)) => simulate_nfa(out, s1 \o s2)

C10_RenumberPreservesLanguage ==
    op = "renumber" =>
        /\ \A s \in Strings : simulate_nfa(out, s) <=> simulate_nfa(a, s)
        /\ out.states = startnum..(startnum + Cardinality(a.states) - 1)
        /\ nextnum = startnum + Cardinality(a.states)

====
